---------------------------- MODULE Spec2Model ----------------------------
(***************************************************************************)
(* Court Cases Dashboard (app.py): the loader load_data, the two pages     *)
(* render_home_page and render_dashboard_page, and the script's entry      *)
(* point, as a state machine.  Every user interaction re-executes the      *)
(* whole script, so every action below is one complete script run.         *)
(*                                                                         *)
(* Text cells are sequences of one-character strings, so that strip() and  *)
(* title() are computed character by character.  Timestamps are integers:  *)
(* proleptic Gregorian ordinal * TicksPerDay + tick of the day.            *)
(***************************************************************************)
EXTENDS Integers, Sequences, FiniteSets, TLC

(***************************************************************************)
(* Bounds of the model.                                                    *)
(***************************************************************************)
\* how many instants of a day are told apart (tick 0 is midnight)
TicksPerDay == 2
\* data rows below the header row in the tables of the loader's check
MaxDataRows == 3
\* data rows below the row after the header in the tables of the pages' check
MaxCases == 2
\* presses of the two month buttons in one session
MaxPresses == 3
\* how often the clock advances in one session
MaxTicks == 1

(***************************************************************************)
(* Characters and strings.                                                 *)
(***************************************************************************)
Lower ==
  << "a", "b", "c", "d", "e", "f", "g", "h", "i", "j", "k", "l", "m",
     "n", "o", "p", "q", "r", "s", "t", "u", "v", "w", "x", "y", "z" >>

Upper ==
  << "A", "B", "C", "D", "E", "F", "G", "H", "I", "J", "K", "L", "M",
     "N", "O", "P", "Q", "R", "S", "T", "U", "V", "W", "X", "Y", "Z" >>

Digits == << "0", "1", "2", "3", "4", "5", "6", "7", "8", "9" >>

\* the characters in code-point order: str comparison is by code point
CodePoints == << " ", "-" >> \o Digits \o Upper \o Lower

Whitespace == { " " }

Range(s) == { s[i] : i \in DOMAIN s }

IndexOf(c, s) == CHOOSE i \in DOMAIN s : s[i] = c

CodeOf(c) == IndexOf(c, CodePoints)

IsCased(c) == c \in Range(Lower) \cup Range(Upper)

ToUpper(c) == IF c \in Range(Lower) THEN Upper[IndexOf(c, Lower)] ELSE c

ToLower(c) == IF c \in Range(Upper) THEN Lower[IndexOf(c, Upper)] ELSE c

\* a missing cell (NaN): no text has an element of more than one character
NaN == << "NaN" >>

\* str.strip(): leading and trailing whitespace removed
RECURSIVE LStrip(_)
LStrip(s) ==
  IF s # << >> /\ Head(s) \in Whitespace THEN LStrip(Tail(s)) ELSE s

RECURSIVE RStrip(_)
RStrip(s) ==
  IF s # << >> /\ s[Len(s)] \in Whitespace
  THEN RStrip(SubSeq(s, 1, Len(s) - 1))
  ELSE s

Strip(s) == RStrip(LStrip(s))

\* str.title(): a cased character is upper-cased when it follows an uncased
\* one (or starts the text) and lower-cased otherwise
Title(s) ==
  [ i \in DOMAIN s |->
      IF i > 1 /\ IsCased(s[i - 1]) THEN ToLower(s[i]) ELSE ToUpper(s[i]) ]

\* Series.str.<method>: a missing value stays missing
StrStrip(v) == IF v = NaN THEN NaN ELSE Strip(v)

StrTitle(v) == IF v = NaN THEN NaN ELSE Title(v)

Fillna(v, fill) == IF v = NaN THEN fill ELSE v

\* s < t for str: lexicographic by code point
RECURSIVE StrLess(_, _)
StrLess(s, t) ==
  IF t = << >> THEN FALSE
  ELSE IF s = << >> THEN TRUE
  ELSE IF Head(s) # Head(t) THEN CodeOf(Head(s)) < CodeOf(Head(t))
  ELSE StrLess(Tail(s), Tail(t))

(***************************************************************************)
(* Calendar: datetime's proleptic Gregorian ordinals.                      *)
(***************************************************************************)
IsLeap(y) == y % 4 = 0 /\ (y % 100 # 0 \/ y % 400 = 0)

DaysInMonth(y, m) ==
  IF m = 2 THEN (IF IsLeap(y) THEN 29 ELSE 28)
  ELSE IF m \in {4, 6, 9, 11} THEN 30 ELSE 31

DaysBeforeYear(y) ==
  (y - 1) * 365 + ((y - 1) \div 4) - ((y - 1) \div 100) + ((y - 1) \div 400)

RECURSIVE DaysBeforeMonth(_, _)
DaysBeforeMonth(y, m) ==
  IF m = 1 THEN 0 ELSE DaysBeforeMonth(y, m - 1) + DaysInMonth(y, m - 1)

ToOrdinal(y, m, d) == DaysBeforeYear(y) + DaysBeforeMonth(y, m) + d

YearOfOrdinal(n) ==
  CHOOSE y \in (n \div 366) .. (n \div 365 + 1) :
    DaysBeforeYear(y) < n /\ n <= DaysBeforeYear(y + 1)

MonthOfOrdinal(n) ==
  LET y == YearOfOrdinal(n)
      k == n - DaysBeforeYear(y)
  IN  CHOOSE m \in 1 .. 12 :
        DaysBeforeMonth(y, m) < k /\ k <= DaysBeforeMonth(y, m) + DaysInMonth(y, m)

\* a missing timestamp (NaT)
NaT == 0

\* a timestamp: the day's ordinal and the tick of the day
Timestamp(ordinal, tick) == ordinal * TicksPerDay + tick

DateOf(ts) == ts \div TicksPerDay

YearOf(ts) == YearOfOrdinal(DateOf(ts))

MonthOf(ts) == MonthOfOrdinal(DateOf(ts))

\* Timestamp.normalize(): midnight of the same day
Normalize(ts) == Timestamp(DateOf(ts), 0)

\* ts + timedelta(days=n)
PlusDays(ts, n) == ts + n * TicksPerDay

\* comparisons of a datetime column with a moment: false where the value is NaT
After(ts, moment) == ts # NaT /\ ts > moment

NotBefore(ts, moment) == ts # NaT /\ ts >= moment

NotAfter(ts, moment) == ts # NaT /\ ts <= moment

DigitValue(c) == IndexOf(c, Digits) - 1

RECURSIVE Number(_)
Number(s) ==
  IF s = << >> THEN 0
  ELSE 10 * Number(SubSeq(s, 1, Len(s) - 1)) + DigitValue(s[Len(s)])

AllDigits(s) == \A i \in DOMAIN s : s[i] \in Range(Digits)

\* pd.to_datetime(errors='coerce') of one cell.  The date texts of the model
\* are in the form YYYY-MM-DD; a missing cell, a text of any other form or
\* a date the calendar does not have gives NaT.
ToDatetime(v) ==
  IF /\ v # NaN
     /\ Len(v) = 10
     /\ v[5] = "-" /\ v[8] = "-"
     /\ AllDigits(SubSeq(v, 1, 4) \o SubSeq(v, 6, 7) \o SubSeq(v, 9, 10))
  THEN LET y == Number(SubSeq(v, 1, 4))
           m == Number(SubSeq(v, 6, 7))
           d == Number(SubSeq(v, 9, 10))
       IN  IF y >= 1 /\ m \in 1 .. 12 /\ d \in 1 .. DaysInMonth(y, m)
           THEN Timestamp(ToOrdinal(y, m, d), 0)
           ELSE NaT
  ELSE NaT

RECURSIVE ZeroPad(_, _)
ZeroPad(n, width) ==
  IF width = 0 THEN << >>
  ELSE ZeroPad(n \div 10, width - 1) \o << Digits[(n % 10) + 1] >>

\* .dt.to_period('M').astype(str) of one value: 'YYYY-MM', and 'NaT' for NaT
PeriodStr(ts) ==
  IF ts = NaT THEN << "N", "a", "T" >>
  ELSE ZeroPad(YearOf(ts), 4) \o << "-" >> \o ZeroPad(MonthOf(ts), 2)

MonthNames ==
  << "January", "February", "March", "April", "May", "June", "July",
     "August", "September", "October", "November", "December" >>

\* strftime("%B %Y"): the month's name and the year
StrftimeBY(ts) == << MonthNames[MonthOf(ts)], YearOf(ts) >>

(***************************************************************************)
(* load_data: the sheet's CSV export, read and cleaned.                    *)
(***************************************************************************)
\* 'Not Specified'
NotSpecified ==
  << "N", "o", "t", " ", "S", "p", "e", "c", "i", "f", "i", "e", "d" >>

\* 'Not Assigned'
NotAssigned ==
  << "N", "o", "t", " ", "A", "s", "s", "i", "g", "n", "e", "d" >>

\* 'Pending'
Pending ==
  << "P", "e", "n", "d", "i", "n", "g" >>

\* 'Decided'
Decided ==
  << "D", "e", "c", "i", "d", "e", "d" >>

\* 'Dismissed'
Dismissed ==
  << "D", "i", "s", "m", "i", "s", "s", "e", "d" >>

\* 'Disposed'
Disposed ==
  << "D", "i", "s", "p", "o", "s", "e", "d" >>

\* 'Punjab And Haryana High Court'
PunjabAndHaryanaHighCourt ==
  << "P", "u", "n", "j", "a", "b", " ", "A", "n", "d", " ", "H", "a", "r",
    "y", "a", "n", "a", " ", "H", "i", "g", "h", " ", "C", "o", "u", "r",
    "t" >>

\* 'District Court Ludhiana'
DistrictCourtLudhiana ==
  << "D", "i", "s", "t", "r", "i", "c", "t", " ", "C", "o", "u", "r", "t",
    " ", "L", "u", "d", "h", "i", "a", "n", "a" >>

\* 'Supreme Court Of India'
SupremeCourtOfIndia ==
  << "S", "u", "p", "r", "e", "m", "e", " ", "C", "o", "u", "r", "t", " ",
    "O", "f", " ", "I", "n", "d", "i", "a" >>

\* 'High Court'
HighCourt ==
  << "H", "i", "g", "h", " ", "C", "o", "u", "r", "t" >>

\* 'District Court'
DistrictCourt ==
  << "D", "i", "s", "t", "r", "i", "c", "t", " ", "C", "o", "u", "r",
    "t" >>

\* 'Supreme Court'
SupremeCourt ==
  << "S", "u", "p", "r", "e", "m", "e", " ", "C", "o", "u", "r", "t" >>

\* the length of the list of column names assigned to df.columns
NumColumns == 24

\* some of the texts read_csv reads as a missing value (its default na_values)
NaValues ==
  { << >>, << "N", "A" >>, << "N", "a", "N" >>, << "n", "a", "n" >>,
    << "N", "U", "L", "L" >>, << "n", "u", "l", "l" >> }

ReadCell(c) == IF c \in NaValues THEN NaN ELSE c

\* the columns of a row that the program reads; line, the row's place in
\* the export, stands for case_no, case_title and the other columns that
\* pass through untouched
ReadRow(r) ==
  [ line              |-> r.line,
    s_no              |-> ReadCell(r.s_no),
    supervisor_office |-> ReadCell(r.supervisor_office),
    case_status       |-> ReadCell(r.case_status),
    court_name        |-> ReadCell(r.court_name),
    next_hearing_date |-> ReadCell(r.next_hearing_date) ]

\* pd.read_csv(url, skiprows=1): the first line is skipped, the next one is
\* the header, the lines below it are the frame's rows
ReadCsv(src) ==
  [ i \in 1 .. (Len(src.lines) - 2) |-> ReadRow(src.lines[i + 2]) ]

\* df.iloc[1:].reset_index(drop=True)
SkipFirstRow(df) == SubSeq(df, 2, Len(df))

\* a slip: df.dropna() without the subset, which drops a row with any
\* missing cell
DropnaAnyColumn(df) ==
  LET Keep(r) == /\ r.s_no # NaN
                 /\ r.supervisor_office # NaN
                 /\ r.case_status # NaN
                 /\ r.court_name # NaN
                 /\ r.next_hearing_date # NaN
  IN  SelectSeq(df, Keep)

\* df.dropna(subset=['s_no'])
DropnaSNo(df) == LET Keep(r) == r.s_no # NaN IN SelectSeq(df, Keep)

\* Series.replace(mapping): a value that is a key is replaced, any other
\* value is left as it is
Replace(v, mapping) == IF v \in DOMAIN mapping THEN mapping[v] ELSE v

status_replacements ==
  [ v \in { Pending, Decided, Dismissed, Disposed } |->
      IF v = Pending THEN Pending ELSE Decided ]

court_replacements ==
  [ v \in { PunjabAndHaryanaHighCourt, DistrictCourtLudhiana,
            SupremeCourtOfIndia } |->
      IF v = PunjabAndHaryanaHighCourt THEN HighCourt
      ELSE IF v = DistrictCourtLudhiana THEN DistrictCourt
      ELSE SupremeCourt ]

CleanCaseStatus(v) ==
  LET titled == Fillna(StrTitle(StrStrip(v)), NotSpecified)
  IN  Fillna(Replace(titled, status_replacements), NotSpecified)

CleanCourtName(v) ==
  Replace(Fillna(StrTitle(StrStrip(v)), NotSpecified), court_replacements)

CleanRow(r) ==
  [ line              |-> r.line,
    s_no              |-> r.s_no,
    supervisor_office |-> Fillna(r.supervisor_office, NotAssigned),
    case_status       |-> CleanCaseStatus(r.case_status),
    court_name        |-> CleanCourtName(r.court_name),
    next_hearing_date |-> ToDatetime(r.next_hearing_date) ]

\* The .str accessor exists on a column of texts only.  read_csv gives a
\* column whose cells are all missing the type float64, and .str on it
\* raises AttributeError; the columns of a frame without rows are of type
\* object.
HasStrAccessor(df, col) == df = << >> \/ \E i \in DOMAIN df : df[i][col] # NaN

\* whether the body of load_data's try block raises
Raises(src) ==
  \/ ~src.ok                          \* the export cannot be fetched
  \/ Len(src.lines) < 2               \* no header line: EmptyDataError
  \/ src.ncols # NumColumns           \* df.columns: length mismatch
  \/ ~HasStrAccessor(ReadCsv(src), "case_status")
  \/ ~HasStrAccessor(ReadCsv(src), "court_name")

\* a slip: an except clause that catches the failed fetch only
LoadDataCatchingFetchOnly(src) ==
  IF ~src.ok \/ Len(src.lines) < 2 THEN << >>
  ELSE LET kept == DropnaSNo(SkipFirstRow(ReadCsv(src)))
       IN  [ i \in DOMAIN kept |-> CleanRow(kept[i]) ]

\* the value load_data returns, pd.DataFrame() when the try block raised
load_data(src) ==
  IF Raises(src) THEN << >>
  ELSE LET kept == DropnaSNo(SkipFirstRow(ReadCsv(src)))
       IN  [ i \in DOMAIN kept |-> CleanRow(kept[i]) ]

(***************************************************************************)
(* Frames and series: the pandas operations the pages use.                 *)
(***************************************************************************)
\* a column of a frame, as a sequence
Column(df, col) == [ i \in DOMAIN df |-> df[i][col] ]

\* Series.unique(), as a set: the options of a multiselect
Unique(s) == Range(s)

\* a stable sort: x comes before y when Less(x, y), or when neither is less
\* than the other and x stands before y in s
StableSort(s, Less(_, _)) ==
  LET n == Len(s)
      rank(i) ==
        1 + Cardinality({ j \in 1 .. n :
                            \/ Less(s[j], s[i])
                            \/ ~Less(s[i], s[j]) /\ j < i })
  IN  [ k \in 1 .. n |-> s[CHOOSE i \in 1 .. n : rank(i) = k] ]

\* the distinct values of s in the order of their first appearance
RECURSIVE FirstAppearances(_)
FirstAppearances(s) ==
  IF s = << >> THEN << >>
  ELSE LET front == FirstAppearances(SubSeq(s, 1, Len(s) - 1))
           last  == s[Len(s)]
       IN  IF last \in Range(front) THEN front ELSE Append(front, last)

Occurrences(v, s) == Cardinality({ i \in DOMAIN s : s[i] = v })

\* Series.value_counts().reset_index(): one << value, count >> for each
\* distinct value that is not missing, the largest count first
ValueCounts(s) ==
  LET present(v) == v # NaN
      values == FirstAppearances(SelectSeq(s, present))
      counts == [ i \in DOMAIN values |-> << values[i], Occurrences(values[i], s) >> ]
      more(x, y) == x[2] > y[2]
  IN  StableSort(counts, more)

\* a slip: the sort_index() forgotten
ValueCountsUnsorted(s) == ValueCounts(s)

\* Series.value_counts().sort_index().reset_index(): ordered by the value
ValueCountsSortIndex(s) ==
  LET before(x, y) == StrLess(x[1], y[1])
  IN  StableSort(ValueCounts(s), before)

\* df.sort_values(by='next_hearing_date')
SortByHearingDate(df) ==
  LET earlier(x, y) == x.next_hearing_date < y.next_hearing_date
  IN  StableSort(df, earlier)

(***************************************************************************)
(* The state.                                                              *)
(***************************************************************************)
VARIABLES
  source,         \* the sheet behind the export URL, as load_data finds it
  cache,          \* st.cache_data: what load_data has returned, once called
  now,            \* the clock: what datetime.now() returns in the next run
  ticks,          \* how often the clock has advanced
  page,           \* the value of the sidebar's "Go to" radio
  session_state,  \* st.session_state: view_date and selected_date, once set
  widgets,        \* the values of the dashboard's widgets, while they exist
  presses,        \* how often a month button has been pressed
  event,          \* the interaction that caused the latest run
  prior_court,    \* history: the selectbox's value before the latest run
  screen          \* what the latest run of the script has put on the page

vars ==
  << source, cache, now, ticks, page, session_state, widgets, presses,
     event, prior_court, screen >>

\* selected_date = None
None == 0

\* the first option of the drill-down selectbox; no court name has an
\* element of more than one character
Placeholder == << "-- Select a court to see monthly breakdown --" >>

\* session_state and the widgets before the script has set them
NoState == [ k \in {} |-> 0 ]

\* what one run shows; a field keeps its value here when the run does not
\* render the element
BlankScreen ==
  [ page                   |-> "",
    moment                 |-> NaT,     \* the clock the run has read
    errors                 |-> FALSE,   \* load_data's two st.error texts
    warning                |-> "",      \* the st.warning text
    metrics                |-> << >>,   \* the four st.metric values
    subheader              |-> << >>,   \* the calendar's month and year text
    grid                   |-> << >>,   \* year, month of the day buttons
    day_buttons            |-> {},      \* the day numbers with a button
    hearing_dates_in_month |-> {},      \* the dates with a primary button
    cases_on_date          |-> << >>,   \* the rows below the calendar
    filters                |-> FALSE,   \* the sidebar's three multiselects
    cases_by_court         |-> << >>,   \* the bars of the top chart
    court_options          |-> << >>,   \* the selectbox's options
    selected_court         |-> << >>,   \* the selectbox's value
    monthly_court          |-> << >>,   \* the court of the monthly chart
    monthly_counts         |-> << >>,   \* the bars of the monthly chart
    upcoming_14_days       |-> << >>,   \* the rows of the 14 days table
    all_upcoming           |-> << >>,   \* the rows of the upcoming table
    table                  |-> << >> ]  \* df_filtered, the last table

\* timedelta(days=30), the step of the two month buttons
MonthStep == 30

\* timedelta(days=14), the span of the first table of hearings
TwoWeeks == 14

(***************************************************************************)
(* render_home_page                                                        *)
(***************************************************************************)
\* the user's click that caused a run: button is "", "prev", "next" or "day"
NoClick == [ button |-> "", day |-> 0 ]

\* df[df["case_status"] == status].shape[0]
CountStatus(df, status) ==
  LET hit(r) == r.case_status = status IN Len(SelectSeq(df, hit))

\* df[df['next_hearing_date'] > datetime.now()].shape[0]
CountUpcoming(df, moment) ==
  LET hit(r) == After(r.next_hearing_date, moment) IN Len(SelectSeq(df, hit))

KeyMetrics(df, moment) ==
  << Len(df), CountStatus(df, Pending), CountStatus(df, Decided),
     CountUpcoming(df, moment) >>

\* 'view_date' and 'selected_date' are set when they are not in the state
InitSession(ss, moment) ==
  LET a == IF "view_date" \in DOMAIN ss THEN ss
           ELSE ("view_date" :> moment) @@ ss
  IN  IF "selected_date" \in DOMAIN a THEN a
      ELSE ("selected_date" :> None) @@ a

\* view_date after the "Previous Month" button's statement
AfterPrevious(view_date, click) ==
  IF click.button = "prev" THEN PlusDays(view_date, 0 - MonthStep) ELSE view_date

\* view_date after the "Next Month" button's statement
AfterNext(view_date, click) ==
  IF click.button = "next" THEN PlusDays(view_date, MonthStep) ELSE view_date

\* the text of the subheader: written between the two buttons' statements
Subheader(view_date, click) == StrftimeBY(AfterPrevious(view_date, click))

\* year, month of the day grid: read after both buttons' statements
GridMonth(view_date, click) ==
  LET shown == AfterNext(AfterPrevious(view_date, click), click)
  IN  << YearOf(shown), MonthOf(shown) >>

\* the dates of the month that have a hearing
HearingDatesInMonth(df, year, month) ==
  { DateOf(df[i].next_hearing_date) :
      i \in { j \in DOMAIN df :
                /\ df[j].next_hearing_date # NaT
                /\ YearOf(df[j].next_hearing_date) = year
                /\ MonthOf(df[j].next_hearing_date) = month } }

\* df[df['next_hearing_date'].dt.date == selected_date]
CasesOnDate(df, date) ==
  LET hit(r) == r.next_hearing_date # NaT /\ DateOf(r.next_hearing_date) = date
  IN  SelectSeq(df, hit)

\* a slip: the page without its test of df.empty, the metrics of an empty
\* table shown
RenderHomeWithoutEmptyTest(df, ss, moment, click) ==
  [ session_state |-> ss,
    screen |->
      [ BlankScreen EXCEPT
          !.page = "Home",
          !.moment = moment,
          !.metrics = KeyMetrics(df, moment),
          !.warning = IF df = << >>
                      THEN "Could not load data to display metrics."
                      ELSE "" ] ]

\* the page and the session state it leaves, for the click that caused the run
render_home_page(df, ss, moment, click) ==
  IF df # << >>
  THEN LET s0    == InitSession(ss, moment)
           ym    == GridMonth(s0.view_date, click)
           date  == IF click.button = "day"
                    THEN ToOrdinal(ym[1], ym[2], click.day)
                    ELSE s0.selected_date
           s1    == [ s0 EXCEPT
                        !.view_date = AfterNext(AfterPrevious(@, click), click),
                        !.selected_date = date ]
       IN  [ session_state |-> s1,
             screen |->
               [ BlankScreen EXCEPT
                   !.page = "Home",
                   !.moment = moment,
                   !.metrics = KeyMetrics(df, moment),
                   !.subheader = Subheader(s0.view_date, click),
                   !.grid = ym,
                   !.day_buttons = 1 .. DaysInMonth(ym[1], ym[2]),
                   !.hearing_dates_in_month =
                       HearingDatesInMonth(df, ym[1], ym[2]),
                   !.cases_on_date =
                       IF date # None THEN CasesOnDate(df, date) ELSE << >> ] ]
  ELSE [ session_state |-> ss,
         screen |->
           [ BlankScreen EXCEPT
               !.page = "Home",
               !.moment = moment,
               !.warning = "Could not load data to display metrics." ] ]

(***************************************************************************)
(* render_dashboard_page                                                   *)
(***************************************************************************)
\* a multiselect's value: what the user left selected, and every option
\* (its default) when the widget is new
Multiselect(w, name, options) == IF name \in DOMAIN w THEN w[name] ELSE options

\* df.query("supervisor_office == @supervisor_office & case_status ==
\* @case_status & court_name == @court_name_filter")
Query(df, supervisor_office, case_status, court_name_filter) ==
  LET hit(r) == /\ r.supervisor_office \in supervisor_office
                /\ r.case_status \in case_status
                /\ r.court_name \in court_name_filter
  IN  SelectSeq(df, hit)

\* df_filtered['court_name'].value_counts().reset_index()
CasesByCourt(df_filtered) == ValueCounts(Column(df_filtered, "court_name"))

CourtOptions(cases_by_court) ==
  << Placeholder >> \o [ i \in DOMAIN cases_by_court |-> cases_by_court[i][1] ]

\* a slip: a selectbox given a fixed key, which keeps its value when its
\* options change
SelectboxKeepingValue(w, options) ==
  IF "selected_court" \in DOMAIN w THEN w.selected_court ELSE options[1]

\* the selectbox's value: a selectbox with other options than the one of
\* the run before is a new widget, and a new selectbox shows its first option
Selectbox(w, options) ==
  IF "selected_court" \in DOMAIN w /\ w.court_options = options
  THEN w.selected_court
  ELSE options[1]

\* df_filtered[df_filtered['court_name'] == selected_court]
MonthlyDf(df_filtered, selected_court) ==
  LET hit(r) == r.court_name = selected_court IN SelectSeq(df_filtered, hit)

\* a slip: the months counted without the rows that have no date
MonthlyCountsOfDated(monthly_df) ==
  LET dated(r) == r.next_hearing_date # NaT
      rows == SelectSeq(monthly_df, dated)
  IN  ValueCountsSortIndex(
        [ i \in DOMAIN rows |-> PeriodStr(rows[i].next_hearing_date) ])

\* monthly_df['month'].value_counts().sort_index().reset_index(), where
\* month is next_hearing_date.dt.to_period('M').astype(str)
MonthlyCounts(monthly_df) ==
  ValueCountsSortIndex(
    [ i \in DOMAIN monthly_df |-> PeriodStr(monthly_df[i].next_hearing_date) ])

\* the rows of the "Next 14 Days" table
Upcoming14Days(df_filtered, today) ==
  LET hit(r) == /\ NotBefore(r.next_hearing_date, today)
                /\ NotAfter(r.next_hearing_date, PlusDays(today, TwoWeeks))
  IN  SortByHearingDate(SelectSeq(df_filtered, hit))

\* the rows of the "Complete List of All Upcoming Hearings" table
AllUpcoming(df_filtered, today) ==
  LET hit(r) == NotBefore(r.next_hearing_date, today)
  IN  SortByHearingDate(SelectSeq(df_filtered, hit))

\* the page and the widget values it leaves, for the widget values w the
\* user's interaction has set
render_dashboard_page(df, w, moment) ==
  LET supervisor_office ==
        Multiselect(w, "supervisor_office", Unique(Column(df, "supervisor_office")))
      case_status ==
        Multiselect(w, "case_status", Unique(Column(df, "case_status")))
      court_name_filter ==
        Multiselect(w, "court_name_filter", Unique(Column(df, "court_name")))
      df_filtered == Query(df, supervisor_office, case_status, court_name_filter)
      today == Normalize(moment)
      cases_by_court == CasesByCourt(df_filtered)
      court_options == CourtOptions(cases_by_court)
      selected_court == Selectbox(w, court_options)
      drilled == selected_court # Placeholder
      monthly_df == MonthlyDf(df_filtered, selected_court)
  IN  [ widgets |->
          [ supervisor_office |-> supervisor_office,
            case_status       |-> case_status,
            court_name_filter |-> court_name_filter,
            court_options     |-> court_options,
            selected_court    |-> selected_court ],
        screen |->
          [ BlankScreen EXCEPT
              !.page = "Detailed Dashboard",
              !.moment = moment,
              !.filters = TRUE,
              !.cases_by_court = cases_by_court,
              !.court_options = court_options,
              !.selected_court = selected_court,
              !.monthly_court = IF drilled THEN selected_court ELSE << >>,
              !.monthly_counts =
                  IF drilled THEN MonthlyCounts(monthly_df) ELSE << >>,
              !.upcoming_14_days = Upcoming14Days(df_filtered, today),
              !.all_upcoming = AllUpcoming(df_filtered, today),
              !.table = df_filtered ] ]

(***************************************************************************)
(* The script: one run from the top to the bottom.                         *)
(***************************************************************************)
\* df = load_data(SHEET_ID, GID) under @st.cache_data: the first run calls
\* load_data, a later run gets what the first one got, st.error texts
\* included.  (The sheet stays as it is during a session, so a call after
\* the ttl of 600 s would return the same.)
CachedLoad ==
  IF cache.loaded THEN cache
  ELSE [ loaded |-> TRUE, df |-> load_data(source), raised |-> Raises(source) ]

\* the state a run leaves, for the page the radio shows, the widget values
\* w and the click that caused the run
Script(p, w, click) ==
  LET loaded == CachedLoad
      df     == loaded.df
  IN  /\ cache' = loaded
      /\ prior_court' = screen.selected_court
      /\ IF p = "Home"
         THEN LET home == render_home_page(df, session_state, now, click)
              IN  /\ session_state' = home.session_state
                  /\ widgets' = NoState
                  /\ screen' = [ home.screen EXCEPT !.errors = loaded.raised ]
         ELSE IF df # << >>
         THEN LET dash == render_dashboard_page(df, w, now)
              IN  /\ session_state' = session_state
                  /\ widgets' = dash.widgets
                  /\ screen' = [ dash.screen EXCEPT !.errors = loaded.raised ]
         ELSE /\ session_state' = session_state
              /\ widgets' = NoState
              /\ screen' =
                   [ BlankScreen EXCEPT
                       !.page = "Detailed Dashboard",
                       !.moment = now,
                       !.errors = loaded.raised,
                       !.warning = "Could not load data. Please check the Google Sheet link and sharing permissions." ]

Pages == { "Home", "Detailed Dashboard" }

\* the user opens the app: the first run, the radio on its first option
OpenApp ==
  /\ screen.page = ""
  /\ page' = "Home"
  /\ event' = "open"
  /\ Script("Home", NoState, NoClick)
  /\ UNCHANGED << source, now, ticks, presses >>

\* the user picks the other page in the sidebar
SelectPage(p) ==
  /\ screen.page # ""
  /\ p # page
  /\ page' = p
  /\ event' = "page"
  /\ Script(p, NoState, NoClick)
  /\ UNCHANGED << source, now, ticks, presses >>

\* whether the latest run has rendered the calendar
CalendarShown == screen.page = "Home" /\ screen.grid # << >>

PreviousMonth ==
  /\ CalendarShown
  /\ presses < MaxPresses
  /\ presses' = presses + 1
  /\ event' = "prev"
  /\ Script(page, NoState, [ button |-> "prev", day |-> 0 ])
  /\ UNCHANGED << source, now, ticks, page >>

NextMonth ==
  /\ CalendarShown
  /\ presses < MaxPresses
  /\ presses' = presses + 1
  /\ event' = "next"
  /\ Script(page, NoState, [ button |-> "next", day |-> 0 ])
  /\ UNCHANGED << source, now, ticks, page >>

\* the day buttons the model presses: the first day of the month shown and
\* the days with a hearing
DayChoices ==
  IF CalendarShown
  THEN { 1 } \cup
       { d \in screen.day_buttons :
           ToOrdinal(screen.grid[1], screen.grid[2], d)
             \in screen.hearing_dates_in_month }
  ELSE {}

PressDay(d) ==
  /\ CalendarShown
  /\ d \in screen.day_buttons
  /\ event' = "day"
  /\ Script(page, NoState, [ button |-> "day", day |-> d ])
  /\ UNCHANGED << source, now, ticks, page, presses >>

\* whether the latest run has rendered the dashboard's widgets
DashboardShown == screen.page = "Detailed Dashboard" /\ screen.filters

Toggle(set, v) == IF v \in set THEN set \ { v } ELSE set \cup { v }

\* the user adds an option to a multiselect or removes one from it
ToggleFilter(name, v) ==
  /\ DashboardShown
  /\ event' = "filter"
  /\ Script(page, [ widgets EXCEPT ![name] = Toggle(@, v) ], NoClick)
  /\ UNCHANGED << source, now, ticks, page, presses >>

\* the options of a multiselect of the dashboard
FilterOptions(name) ==
  LET df  == cache.df
      col == IF name = "court_name_filter" THEN "court_name" ELSE name
  IN  IF DashboardShown THEN Unique(Column(df, col)) ELSE {}

\* the options of the drill-down selectbox
SelectboxOptions == IF DashboardShown THEN Range(widgets.court_options) ELSE {}

\* the user picks an option of the drill-down selectbox
SelectCourt(c) ==
  /\ DashboardShown
  /\ c \in SelectboxOptions
  /\ c # widgets.selected_court
  /\ event' = "court"
  /\ Script(page, [ widgets EXCEPT !.selected_court = c ], NoClick)
  /\ UNCHANGED << source, now, ticks, page, presses >>

\* time passes; nothing runs
Tick ==
  /\ ticks < MaxTicks
  /\ ticks' = ticks + 1
  /\ now' = now + 1
  /\ UNCHANGED << source, cache, page, session_state, widgets, presses, event,
                  prior_court, screen >>

(***************************************************************************)
(* The sheets and the clocks the check starts from.                        *)
(***************************************************************************)
\* the lines of an export, numbered from the top
Lines(rows) == [ i \in DOMAIN rows |-> ("line" :> i) @@ rows[i] ]

\* the sequences over S of a length up to n
RECURSIVE SeqsUpTo(_, _)
SeqsUpTo(S, n) ==
  IF n = 0 THEN { << >> }
  ELSE LET shorter == SeqsUpTo(S, n - 1)
       IN  shorter \cup { Append(s, x) : s \in shorter, x \in S }

\* lines of the loader's check: a case whose status and court are spelled
\* loosely, a case with a blank status and a text for a date, a blank filler
\* line, a case with a status outside the vocabulary, and a line without a
\* serial number
LoaderPalette ==
  Range(
  << [ s_no |-> << "1" >>,
       supervisor_office |-> << "A" >>,
       case_status |-> << "d", "i", "s", "m", "i", "s", "s", "e", "d", " " >>,
       court_name |->
         << "p", "u", "n", "j", "a", "b", " ", "a", "n", "d", " ", "h", "a", "r", "y", "a", "n", "a", " ", "h", "i", "g", "h", " ", "c", "o", "u", "r", "t" >>,
       next_hearing_date |-> << "2", "0", "2", "5", "-", "0", "2", "-", "1", "0" >> ],
     [ s_no |-> << "2" >>,
       supervisor_office |-> << >>,
       case_status |-> << >>,
       court_name |->
         << >>,
       next_hearing_date |-> << "n", "o", "t", " ", "a", " ", "d", "a", "t", "e" >> ],
     [ s_no |-> << >>,
       supervisor_office |-> << >>,
       case_status |-> << >>,
       court_name |->
         << >>,
       next_hearing_date |-> << >> ],
     [ s_no |-> << "3" >>,
       supervisor_office |-> << "B" >>,
       case_status |-> << "w", "i", "t", "h", "d", "r", "a", "w", "n" >>,
       court_name |->
         << "d", "i", "s", "t", "r", "i", "c", "t", " ", "c", "o", "u", "r", "t", " ", "l", "u", "d", "h", "i", "a", "n", "a", " " >>,
       next_hearing_date |-> << >> ],
     [ s_no |-> << >>,
       supervisor_office |-> << "A" >>,
       case_status |-> << "P", "e", "n", "d", "i", "n", "g" >>,
       court_name |->
         << "H", "i", "g", "h", " ", "C", "o", "u", "r", "t" >>,
       next_hearing_date |-> << "2", "0", "2", "5", "-", "0", "2", "-", "3", "0" >> ] >>)

\* the export that cannot be fetched
Unavailable == [ ok |-> FALSE, ncols |-> NumColumns, lines |-> << >> ]

\* every export of up to MaxDataRows lines below the header line, any line
\* of it taken from the palette; an export with a column less; and the
\* export that cannot be fetched
LoaderSources ==
  { Unavailable } \cup
  { [ ok |-> TRUE, ncols |-> NumColumns - 1,
      lines |-> Lines(rows) ] : rows \in SeqsUpTo(LoaderPalette, 3) } \cup
  { [ ok |-> TRUE, ncols |-> NumColumns, lines |-> Lines(rows) ] :
      rows \in SeqsUpTo(LoaderPalette, MaxDataRows + 2) }

\* the cases of the pages' check: a hearing on 31 January 2025, a later
\* hearing at another court and without an office, a case without a hearing
\* date, and a hearing in December 2024
Cases ==
  << [ s_no |-> << "1" >>,
       supervisor_office |-> << "A" >>,
       case_status |-> << "P", "e", "n", "d", "i", "n", "g" >>,
       court_name |->
         << "h", "i", "g", "h", " ", "c", "o", "u", "r", "t" >>,
       next_hearing_date |-> << "2", "0", "2", "5", "-", "0", "1", "-", "3", "1" >> ],
     [ s_no |-> << "2" >>,
       supervisor_office |-> << >>,
       case_status |-> << "d", "i", "s", "p", "o", "s", "e", "d" >>,
       court_name |->
         << "d", "i", "s", "t", "r", "i", "c", "t", " ", "c", "o", "u", "r", "t", " ", "l", "u", "d", "h", "i", "a", "n", "a" >>,
       next_hearing_date |-> << "2", "0", "2", "5", "-", "0", "3", "-", "0", "2" >> ],
     [ s_no |-> << "3" >>,
       supervisor_office |-> << "A" >>,
       case_status |-> << "P", "e", "n", "d", "i", "n", "g" >>,
       court_name |->
         << "H", "i", "g", "h", " ", "C", "o", "u", "r", "t", " " >>,
       next_hearing_date |-> << >> ],
     [ s_no |-> << "4" >>,
       supervisor_office |-> << "A" >>,
       case_status |-> << "D", "i", "s", "m", "i", "s", "s", "e", "d" >>,
       court_name |->
         << "h", "i", "g", "h", " ", "c", "o", "u", "r", "t" >>,
       next_hearing_date |-> << "2", "0", "2", "4", "-", "1", "2", "-", "1", "5" >> ] >>

CasePalette == Range(Cases)

\* the banner line, the header line and the line below it
TopLines ==
  << [ s_no |-> << >>,
       supervisor_office |-> << >>,
       case_status |-> << >>,
       court_name |->
         << >>,
       next_hearing_date |-> << >> ],
     [ s_no |-> << "S", " ", "N", "o" >>,
       supervisor_office |-> << "O", "f", "f", "i", "c", "e" >>,
       case_status |-> << "S", "t", "a", "t", "u", "s" >>,
       court_name |->
         << "C", "o", "u", "r", "t" >>,
       next_hearing_date |-> << "N", "e", "x", "t", " ", "D", "a", "t", "e" >> ],
     [ s_no |-> << "0" >>,
       supervisor_office |-> << "A" >>,
       case_status |-> << "P", "e", "n", "d", "i", "n", "g" >>,
       court_name |->
         << "h", "i", "g", "h", " ", "c", "o", "u", "r", "t" >>,
       next_hearing_date |-> << "2", "0", "2", "5", "-", "0", "1", "-", "3", "1" >> ] >>

\* the exports with up to MaxCases cases below the top lines, and the export
\* that cannot be fetched
AppSources ==
  { Unavailable } \cup
  { [ ok |-> TRUE, ncols |-> NumColumns, lines |-> Lines(TopLines \o rows) ] :
      rows \in SeqsUpTo(CasePalette, MaxCases) }

\* the export with the four cases, and the export that cannot be fetched
SessionSources ==
  { Unavailable,
    [ ok |-> TRUE, ncols |-> NumColumns, lines |-> Lines(TopLines \o Cases) ] }

\* the days a session starts on: 1 January 2025 and 31 January 2025
StartDays == { ToOrdinal(2025, 1, 1), ToOrdinal(2025, 1, 31) }

\* the instants of a day
Moments(d) == { Timestamp(d, t) : t \in 0 .. (TicksPerDay - 1) }

\* the instants of the days a session starts on
StartMoments == UNION { Moments(d) : d \in StartDays }

StartWith(sources, moments) ==
  /\ source \in sources
  /\ cache = [ loaded |-> FALSE, df |-> << >>, raised |-> FALSE ]
  /\ now \in moments
  /\ ticks = 0
  /\ page = "Home"
  /\ session_state = NoState
  /\ widgets = NoState
  /\ presses = 0
  /\ event = ""
  /\ prior_court = << >>
  /\ screen = BlankScreen

(***************************************************************************)
(* The app: every interaction.                                             *)
(***************************************************************************)
\* the export with the four cases, opened on 31 January 2025
Init == StartWith(SessionSources, Moments(ToOrdinal(2025, 1, 31)))

Next ==
  \/ OpenApp
  \/ \E p \in Pages : SelectPage(p)
  \/ PreviousMonth
  \/ NextMonth
  \/ \E d \in DayChoices : PressDay(d)
  \/ \E name \in { "supervisor_office", "case_status", "court_name_filter" } :
       \E v \in FilterOptions(name) : ToggleFilter(name, v)
  \/ \E c \in SelectboxOptions : SelectCourt(c)
  \/ Tick

Spec == Init /\ [][Next]_vars

(***************************************************************************)
(* The loader's check: any export, and the two pages opened on it.         *)
(***************************************************************************)
\* the loader does not read the clock: one start is enough
InitLoad == StartWith(LoaderSources, { Timestamp(ToOrdinal(2025, 1, 31), 0) })

NextLoad ==
  \/ OpenApp
  \/ \E p \in Pages : SelectPage(p)

SpecLoad == InitLoad /\ [][NextLoad]_vars

(***************************************************************************)
(* The Home page's check: the calendar.                                    *)
(***************************************************************************)
\* the export with the four cases, opened on either start day
InitHome == StartWith(SessionSources, StartMoments)

NextHome ==
  \/ OpenApp
  \/ \E p \in Pages : SelectPage(p)
  \/ PreviousMonth
  \/ NextMonth
  \/ \E d \in DayChoices : PressDay(d)
  \/ Tick

SpecHome == InitHome /\ [][NextHome]_vars

(***************************************************************************)
(* The dashboard's check: the filters and the drill-down.                  *)
(***************************************************************************)
\* any export of up to MaxCases cases, opened at any instant of 31 January
\* 2025; the clock stands still, the dashboard's tables of hearings being
\* all that reads it
InitDash == StartWith(AppSources, Moments(ToOrdinal(2025, 1, 31)))

NextDash ==
  \/ OpenApp
  \/ \E p \in Pages : SelectPage(p)
  \/ \E name \in { "supervisor_office", "case_status", "court_name_filter" } :
       \E v \in FilterOptions(name) : ToggleFilter(name, v)
  \/ \E c \in SelectboxOptions : SelectCourt(c)

SpecDash == InitDash /\ [][NextDash]_vars

(***************************************************************************)
(* The claims.                                                             *)
(***************************************************************************)
\* the lines of the export from line first on whose serial number is present
LinesWithSerial(src, first) ==
  LET numbers == [ k \in 1 .. (Len(src.lines) - first + 1) |-> k + first - 1 ]
      present(i) == ReadCell(src.lines[i].s_no) # NaN
  IN  SelectSeq(numbers, present)

\* the status the vocabulary gives a cell: trimmed and title-cased, Pending
\* stays, Decided, Dismissed and Disposed become Decided, anything else and
\* a missing cell become Not Specified
CanonicalStatus(cell) ==
  LET titled == IF ReadCell(cell) = NaN THEN NaN ELSE Title(Strip(cell))
  IN  IF titled = Pending THEN Pending
      ELSE IF titled \in { Decided, Dismissed, Disposed } THEN Decided
      ELSE NotSpecified

\* C1: every record load_data returns has the case_status the vocabulary
\* gives its cell, so one of Pending, Decided and Not Specified.  The code
\* keeps a status outside the vocabulary as it is: this is violated.
C1_StatusIsCanonical ==
  cache.loaded =>
    \A i \in DOMAIN cache.df :
      /\ cache.df[i].case_status =
           CanonicalStatus(source.lines[cache.df[i].line].case_status)
      /\ cache.df[i].case_status \in { Pending, Decided, NotSpecified }

NothingRendered ==
  /\ screen.metrics = << >>
  /\ screen.subheader = << >> /\ screen.grid = << >>
  /\ screen.day_buttons = {} /\ screen.cases_on_date = << >>
  /\ ~screen.filters
  /\ screen.cases_by_court = << >> /\ screen.court_options = << >>
  /\ screen.monthly_counts = << >>
  /\ screen.upcoming_14_days = << >> /\ screen.all_upcoming = << >>
  /\ screen.table = << >>

\* C4: when the body of load_data raises, load_data returns the empty
\* table, and every page rendered on it shows its warning that the data
\* could not be loaded and renders nothing of the data.
C4_FailureGivesNotice ==
  (cache.loaded /\ Raises(source)) =>
    /\ cache.df = << >>
    /\ screen.errors
    /\ screen.page = "Home" =>
         screen.warning = "Could not load data to display metrics."
    /\ screen.page = "Detailed Dashboard" =>
         screen.warning = "Could not load data. Please check the Google Sheet link and sharing permissions."
    /\ NothingRendered

\* C4's case: the dashboard reached after the Home page on an export that
\* is fetched and has a column less than the names assigned to it
C4_Witness ==
  /\ cache.loaded /\ source.ok /\ Raises(source)
  /\ source.ncols # NumColumns /\ Len(source.lines) = 3
  /\ event = "page" /\ screen.page = "Detailed Dashboard"
  /\ screen.warning # ""

\* C5 as claimed: on a table that load_data returns empty without failing,
\* the Home page reports the four metrics as zero and flags that there is
\* no data.  The code shows no metric at all there: this is violated.
C5_EmptyTableShowsZeros ==
  (screen.page = "Home" /\ cache.loaded /\ ~cache.raised /\ cache.df = << >>) =>
    /\ screen.metrics = << 0, 0, 0, 0 >>
    /\ screen.warning # ""

\* C5 as amended: on a table that load_data returns empty without failing,
\* the Home page shows none of the four metrics, raises no error and shows
\* the warning that the data could not be loaded.
C5_EmptyTableShowsWarningOnly ==
  (screen.page = "Home" /\ cache.loaded /\ ~cache.raised /\ cache.df = << >>) =>
    /\ screen.metrics = << >>
    /\ ~screen.errors
    /\ screen.warning = "Could not load data to display metrics."

\* C5's case: the Home page on an export that has lines below the header,
\* none of which load_data keeps
C5_Witness ==
  /\ screen.page = "Home" /\ cache.loaded /\ ~cache.raised
  /\ Len(source.lines) > 3
  /\ cache.df = << >>
  /\ screen.warning # ""

\* the sum of the counts of a breakdown
RECURSIVE SumCounts(_)
SumCounts(counts) ==
  IF counts = << >> THEN 0 ELSE Head(counts)[2] + SumCounts(Tail(counts))

\* the rows of the filtered table at a court
RowsAtCourt(court) ==
  LET hit(r) == r.court_name = court IN SelectSeq(screen.table, hit)

\* C3: on the dashboard the counts of the courts sum to the number of rows
\* of the filtered table, and the counts of the months of the chosen court
\* sum to the number of filtered rows at that court.
C3_CountsSumToRows ==
  DashboardShown =>
    /\ SumCounts(screen.cases_by_court) = Len(screen.table)
    /\ screen.selected_court # Placeholder =>
         SumCounts(screen.monthly_counts) = Len(RowsAtCourt(screen.selected_court))

\* C3's case: a court chosen under a filter that hides a row of the table,
\* its months counted, a row without a date among them
C3_Witness ==
  /\ DashboardShown
  /\ event = "court"
  /\ Len(screen.table) < Len(cache.df)
  /\ screen.selected_court # Placeholder
  /\ \E i \in DOMAIN screen.table :
       /\ screen.table[i].court_name = screen.selected_court
       /\ screen.table[i].next_hearing_date = NaT

\* C6: the drill-down selection is the empty path or one court of the
\* chart above it; a monthly breakdown is on the page exactly when a court
\* is chosen, and it is the breakdown of that court's rows of the table now
\* filtered; nothing deeper than the court is ever selected.
C6_BreakdownFollowsSelection ==
  /\ DashboardShown =>
       /\ screen.selected_court = widgets.selected_court
       /\ screen.court_options = widgets.court_options
       /\ widgets.selected_court \in Range(screen.court_options)
       /\ DOMAIN widgets = { "supervisor_office", "case_status",
                             "court_name_filter", "court_options",
                             "selected_court" }
       /\ IF widgets.selected_court = Placeholder
          THEN screen.monthly_court = << >> /\ screen.monthly_counts = << >>
          ELSE /\ screen.monthly_court = widgets.selected_court
               /\ \E i \in DOMAIN screen.cases_by_court :
                    screen.cases_by_court[i][1] = widgets.selected_court
               /\ RowsAtCourt(widgets.selected_court) # << >>
               /\ SumCounts(screen.monthly_counts) =
                    Len(RowsAtCourt(widgets.selected_court))
  /\ ~DashboardShown =>
       /\ widgets = NoState
       /\ screen.monthly_court = << >> /\ screen.monthly_counts = << >>

\* C6's case: a filter has just removed the chosen court from the chart,
\* and the selection and the breakdown are gone with it
C6_Witness ==
  /\ DashboardShown
  /\ event = "filter"
  /\ prior_court \notin { << >>, Placeholder }
  /\ prior_court \notin Range(screen.court_options)
  /\ widgets.selected_court = Placeholder
  /\ screen.monthly_court = << >>

\* whether a row's hearing is upcoming at the moment a run reads the clock
IsUpcoming(r) == r.next_hearing_date # NaT /\ r.next_hearing_date > screen.moment

\* C7: the Home page counts, and the dashboard lists, exactly the rows
\* whose hearing date is present and strictly later than the moment of the
\* run.  The dashboard lists the hearings from midnight of the day on: this
\* is violated.
C7_UpcomingIsStrictlyLater ==
  /\ (screen.page = "Home" /\ screen.metrics # << >>) =>
       screen.metrics[4] = Len(SelectSeq(cache.df, IsUpcoming))
  /\ DashboardShown =>
       Range(screen.all_upcoming) = Range(SelectSeq(screen.table, IsUpcoming))

\* the month a timestamp is in, counted from year 0
MonthNumber(ts) == YearOf(ts) * 12 + MonthOf(ts)

\* the labels of the months of the dated rows, the earliest month first
ChronologicalMonths(rows) ==
  LET dated(r) == r.next_hearing_date # NaT
      stamps == Column(SelectSeq(rows, dated), "next_hearing_date")
      earlier(x, y) == MonthNumber(x) < MonthNumber(y)
      sorted == StableSort(stamps, earlier)
  IN  FirstAppearances([ i \in DOMAIN sorted |-> PeriodStr(sorted[i]) ])

Undated(rows) == LET hit(r) == r.next_hearing_date = NaT IN SelectSeq(rows, hit)

\* C8 as claimed: the monthly breakdown of the chosen court has one entry
\* for each month of a dated row of the court, the earliest month first,
\* and none for the rows without a date.  The code counts those rows under
\* the label NaT: this is violated.
C8_MonthsWithoutUndated ==
  (DashboardShown /\ screen.selected_court # Placeholder) =>
    [ i \in DOMAIN screen.monthly_counts |-> screen.monthly_counts[i][1] ]
      = ChronologicalMonths(RowsAtCourt(screen.selected_court))

\* C8 as amended: the monthly breakdown of the chosen court has one entry
\* for each month of a dated row of the court, the earliest month first;
\* and, when the court has rows without a date, one more entry after them,
\* labelled NaT, that counts those rows.
C8_MonthsThenUndated ==
  (DashboardShown /\ screen.selected_court # Placeholder) =>
    LET rows == RowsAtCourt(screen.selected_court)
    IN  /\ [ i \in DOMAIN screen.monthly_counts |-> screen.monthly_counts[i][1] ]
             = ChronologicalMonths(rows) \o
                 (IF Undated(rows) = << >> THEN << >> ELSE << PeriodStr(NaT) >>)
        /\ \A i \in DOMAIN screen.monthly_counts :
             screen.monthly_counts[i][2] =
               Cardinality({ j \in DOMAIN rows :
                               PeriodStr(rows[j].next_hearing_date)
                                 = screen.monthly_counts[i][1] })

\* C8's case: a court with a later month first in the table, an earlier
\* month after it
C8_Witness ==
  /\ DashboardShown /\ screen.selected_court # Placeholder
  /\ Len(screen.monthly_counts) = 2
  /\ \E i, j \in DOMAIN screen.table :
       /\ i < j
       /\ screen.table[i].court_name = screen.selected_court
       /\ screen.table[j].court_name = screen.selected_court
       /\ screen.table[j].next_hearing_date # NaT
       /\ screen.table[j].next_hearing_date < screen.table[i].next_hearing_date

\* the month of the day grid, counted from year 0
GridMonthNumber(g) == g[1] * 12 + g[2]

\* C9: a press of "Next Month" moves the calendar to the month after the
\* one shown, a press of "Previous Month" to the month before it.  The
\* buttons move view_date by 30 days: this is violated.
C9_ButtonsStepOneMonth ==
  [][ /\ (event' = "next" /\ CalendarShown) =>
           GridMonthNumber(screen'.grid) = GridMonthNumber(screen.grid) + 1
      /\ (event' = "prev" /\ CalendarShown) =>
           GridMonthNumber(screen'.grid) = GridMonthNumber(screen.grid) - 1 ]_vars

\* C10: the calendar's header names the month and the year of the day grid
\* below it.  In the run a press of "Next Month" causes, the header is
\* written before view_date is moved: this is violated.
C10_HeaderNamesGridMonth ==
  (screen.page = "Home" /\ screen.grid # << >>) =>
    screen.subheader = << MonthNames[screen.grid[2]], screen.grid[1] >>

=============================================================================
